---------------------------- MODULE Spec2Model ----------------------------
(***************************************************************************)
(* Model of the README / metadata checkers under Scripts/CI.               *)
(*                                                                         *)
(* A Python str is modelled as a sequence of code points (naturals), a     *)
(* Python list as a sequence, a Python set as a set, a dict as a function  *)
(* from keys to values.  Only '\n' is used as a line boundary and only     *)
(* ASCII letters are used where letter case matters.                       *)
(***************************************************************************)
EXTENDS Integers, Sequences, FiniteSets, TLC

VARIABLES
    pc,              \* which call the current run is at
    list_a,          \* check_is_subsequence: first argument
    list_b,          \* check_is_subsequence: second argument
    subseq_ret,      \* check_is_subsequence: returned value
    readme_headers,  \* Readme.readme_headers
    heading_err,     \* outcome of Readme.check_format_heading
    arg,             \* the section text handed to a parse_* function
    ret,             \* what the parse_* function returned or raised
    folder_name,     \* Metadata.folder_name
    readme_parts,    \* the README split by get_readme_parts
    listing,         \* os.listdir(folder_path)
    checker,         \* the Metadata object of metadata_checker.run_check
    json_data,       \* the loaded README.metadata.json, once it is read
    meta_err,        \* the exception metadata_checker.run_check raised
    content,         \* the text of a sample's README.md
    readable,        \* whether README.md can be opened and read
    readme,          \* the Readme object of readme_checker.run_check
    rule_errs,       \* readme_checker.run_check: the message of each step
    count0,          \* readme_checker.run_check: the count argument
    count,           \* readme_checker.run_check: the returned count
    samples,         \* all_samples: the sample folders, in os.walk order
    next_idx,        \* all_samples: position of the loop over the folders
    exception_count, \* all_samples: exception_count
    checked,         \* all_samples: the folders run_check was called on
    evaluated,       \* all_samples: the rules each run_check call evaluated
    batch_result     \* all_samples: how the run ended

subseqVars  == <<list_a, list_b, subseq_ret>>
headingVars == <<readme_headers, heading_err>>
parseVars   == <<arg, ret>>
inputVars   == <<folder_name, readme_parts, listing>>
metaVars    == <<folder_name, readme_parts, listing, checker, json_data,
                 meta_err>>

readmeVars  == <<content, readable, readme, rule_errs, count0, count>>
batchVars   == <<samples, next_idx, exception_count, checked, evaluated,
                 batch_result>>

vars == <<pc, subseqVars, headingVars, parseVars, metaVars, readmeVars,
          batchVars>>

---------------------------------------------------------------------------
(* Code points used by the scripts.                                        *)

LF    == 10   \* '\n'
TAB   == 9    \* '\t'
SP    == 32   \* ' '
HASH  == 35   \* '#'
STAR  == 42   \* '*'
COMMA == 44   \* ','
DASH  == 45   \* '-'
DOT   == 46   \* '.'
BANG  == 33   \* '!'

\* The characters str.strip()/rstrip() remove that occur in the model.
Whitespace == {SP, TAB, LF}

---------------------------------------------------------------------------
(* Generic helpers.                                                        *)

\* All sequences over S of length at most n.
BoundedSeqs(S, n) == UNION {[1..k -> S] : k \in 0..n}

\* The elements of a list, as Python's set(list).
ToSet(s) == {s[i] : i \in 1..Len(s)}

---------------------------------------------------------------------------
(* Python str and list operations.                                         *)

\* Index of the first occurrence of character c in s, 0 if there is none.
FirstIndex(s, c) ==
    IF \E i \in 1..Len(s) : s[i] = c
    THEN CHOOSE i \in 1..Len(s) : s[i] = c /\ \A j \in 1..(i - 1) : s[j] # c
    ELSE 0

\* str.splitlines(): no line for the text after a final line boundary.
RECURSIVE splitlines(_)
splitlines(s) ==
    IF s = <<>> THEN <<>>
    ELSE LET i == FirstIndex(s, LF)
         IN  IF i = 0 THEN <<s>>
             ELSE <<SubSeq(s, 1, i - 1)>> \o splitlines(SubSeq(s, i + 1, Len(s)))

\* str.split(sep): always at least one piece, the last possibly empty.
RECURSIVE split(_, _)
split(s, sep) ==
    LET i == FirstIndex(s, sep)
    IN  IF i = 0 THEN <<s>>
        ELSE <<SubSeq(s, 1, i - 1)>> \o split(SubSeq(s, i + 1, Len(s)), sep)

\* str.lstrip(chars) and str.rstrip(chars).
RECURSIVE lstrip(_, _)
lstrip(s, chars) ==
    IF s # <<>> /\ s[1] \in chars THEN lstrip(Tail(s), chars) ELSE s

RECURSIVE rstrip(_, _)
rstrip(s, chars) ==
    IF s # <<>> /\ s[Len(s)] \in chars
    THEN rstrip(SubSeq(s, 1, Len(s) - 1), chars) ELSE s

\* str.strip() with no argument.
strip(s) == rstrip(lstrip(s, Whitespace), Whitespace)

\* list(filter(bool, lines)): the non-empty strings.
NonEmpty(lines) == SelectSeq(lines, LAMBDA x : x # <<>>)

\* str.casefold() on ASCII text.
casefold(s) == [i \in 1..Len(s) |-> IF s[i] \in 65..90 THEN s[i] + 32 ELSE s[i]]

\* x <= y for strings: code point by code point, a prefix first.
RECURSIVE StrLeq(_, _)
StrLeq(x, y) ==
    IF x = <<>> THEN TRUE
    ELSE IF y = <<>> THEN FALSE
    ELSE IF x[1] # y[1] THEN x[1] < y[1]
    ELSE StrLeq(Tail(x), Tail(y))

\* The sort key of x: str.casefold(x) when fold, else x itself.
SortKey(x, fold) == IF fold THEN casefold(x) ELSE x

\* Stable insertion of x into the list l, which is ordered by the key.
RECURSIVE InsertBy(_, _, _)
InsertBy(l, x, fold) ==
    IF l = <<>> THEN <<x>>
    ELSE IF StrLeq(SortKey(l[Len(l)], fold), SortKey(x, fold)) THEN Append(l, x)
    ELSE Append(InsertBy(SubSeq(l, 1, Len(l) - 1), x, fold), l[Len(l)])

\* sorted(l) when fold is FALSE, sorted(l, key=str.casefold) when TRUE.
RECURSIVE SortedBy(_, _)
SortedBy(l, fold) ==
    IF l = <<>> THEN <<>>
    ELSE InsertBy(SortedBy(SubSeq(l, 1, Len(l) - 1), fold), l[Len(l)], fold)

sorted(l) == SortedBy(l, FALSE)

sorted_casefold(l) == SortedBy(l, TRUE)

---------------------------------------------------------------------------
(* Readme.available_headers / Readme.essential_headers.                    *)

H_UseCase == <<85, 115, 101, 32, 99, 97, 115, 101>>
H_HowToUseTheSample ==
    <<72, 111, 119, 32, 116, 111, 32, 117, 115, 101, 32, 116, 104, 101, 32,
      115, 97, 109, 112, 108, 101>>
H_HowItWorks == <<72, 111, 119, 32, 105, 116, 32, 119, 111, 114, 107, 115>>
H_RelevantApi == <<82, 101, 108, 101, 118, 97, 110, 116, 32, 65, 80, 73>>
H_OfflineData == <<79, 102, 102, 108, 105, 110, 101, 32, 100, 97, 116, 97>>
H_AboutTheData ==
    <<65, 98, 111, 117, 116, 32, 116, 104, 101, 32, 100, 97, 116, 97>>
H_AdditionalInformation ==
    <<65, 100, 100, 105, 116, 105, 111, 110, 97, 108, 32, 105, 110, 102,
      111, 114, 109, 97, 116, 105, 111, 110>>
H_Tags == <<84, 97, 103, 115>>

essential_headers ==
    {H_UseCase, H_HowToUseTheSample, H_HowItWorks, H_RelevantApi, H_Tags}

available_headers ==
    <<H_UseCase, H_HowToUseTheSample, H_HowItWorks, H_RelevantApi,
      H_OfflineData, H_AboutTheData, H_AdditionalInformation, H_Tags>>

---------------------------------------------------------------------------
(* check_is_subsequence(list_a, list_b).                                   *)

\* Python's True, which is the int 1 in every comparison and subtraction
\* the callers make (True != 0, True - 1 == 0).
PyTrue == 1

\* The for loop: pb runs from len(list_b) down to 1; pa is returned when
\* the range is exhausted, 0 as soon as pa is 0 at the top of an iteration.
RECURSIVE SubseqScan(_, _, _, _)
SubseqScan(a, b, pa, pb) ==
    IF pb = 0 THEN pa
    ELSE IF pa = 0 THEN 0
    ELSE SubseqScan(a, b, IF b[pb] = a[pa] THEN pa - 1 ELSE pa, pb - 1)

\* Variant whose scan restarts the canonical list at every observed element,
\* i.e. a membership test that ignores order.
check_is_subsequence_unordered(a, b) ==
    IF a = <<>> THEN PyTrue
    ELSE Cardinality({i \in 1..Len(a) : a[i] \notin ToSet(b)})

check_is_subsequence(a, b) ==
    IF a = <<>> THEN PyTrue
    ELSE SubseqScan(a, b, Len(a), Len(b))

---------------------------------------------------------------------------
(* Readme.check_format_heading: "" when it returns, else the error raised. *)

check_format_heading(headers) ==
    LET header_set == ToSet(headers)
        possible_header_set == ToSet(available_headers)
    IN  IF header_set \ possible_header_set # {} THEN "unexpected header"
        ELSE IF essential_headers \ header_set # {} THEN "missing essential"
        ELSE IF check_is_subsequence(headers, available_headers) # 0
             THEN "wrong order"
        ELSE ""

---------------------------------------------------------------------------
(* The parse_* functions.  Each returns [ok, val]: ok is FALSE when the    *)
(* function raises, val is the returned tuple or list.                     *)

Raise == [ok |-> FALSE, val |-> <<>>]
Return(v) == [ok |-> TRUE, val |-> v]

\* Variant that strips only the '#' marks of the heading, not the spaces.
parse_head_hash_only(head_string) ==
    LET parts == NonEmpty(splitlines(head_string))
    IN  IF Len(parts) < 3 THEN Raise
        ELSE Return(<<rstrip(lstrip(parts[1], {HASH}), Whitespace),
                      strip(parts[2])>>)

\* parse_head: val is <<title, description>>.
parse_head(head_string) ==
    LET parts == NonEmpty(splitlines(head_string))
    IN  IF Len(parts) < 3 THEN Raise
        ELSE Return(<<rstrip(lstrip(parts[1], {HASH, SP}), Whitespace),
                      strip(parts[2])>>)

StripBullet(api) == rstrip(lstrip(api, {STAR, DASH, SP}), Whitespace)

parse_apis(apis_string) ==
    LET apis == NonEmpty(splitlines(apis_string))
    IN  IF apis = <<>> THEN Raise
        ELSE Return(sorted([i \in 1..Len(apis) |-> StripBullet(apis[i])]))

parse_tags(tags_string) ==
    LET tags == split(tags_string, COMMA)
    IN  IF tags = <<>> THEN Raise
        ELSE Return(sorted([i \in 1..Len(tags) |-> strip(tags[i])]))

---------------------------------------------------------------------------
(* Exceptions: the message kind and the string the message quotes.         *)

NoErr == [kind |-> "", detail |-> <<>>]
Err(kind) == [kind |-> kind, detail |-> <<>>]
ErrAbout(kind, detail) == [kind |-> kind, detail |-> detail]

---------------------------------------------------------------------------
(* sub_special_char, `in` on strings, list.index.                          *)

\* The characters of the class [@_!#$%^&*<>?|/\\}{~:].
SpecialChars ==
    {64, 95, 33, 35, 36, 37, 94, 38, 42, 60, 62, 63, 124, 47, 92, 125, 123,
     126, 58}

sub_special_char(string) == SelectSeq(string, LAMBDA ch : ch \notin SpecialChars)

\* `needle in haystack` for two strings.
IsSubstring(needle, haystack) ==
    \E i \in 1..(Len(haystack) + 1) :
        /\ i + Len(needle) - 1 <= Len(haystack)
        /\ SubSeq(haystack, i, i + Len(needle) - 1) = needle

\* list.index(x), counted from 1; 0 stands for the ValueError.
IndexOf(l, x) ==
    IF \E i \in 1..Len(l) : l[i] = x
    THEN CHOOSE i \in 1..Len(l) : l[i] = x /\ \A j \in 1..(i - 1) : l[j] # x
    ELSE 0

---------------------------------------------------------------------------
(* check_apis and check_tags: [ok, err, val], val the returned set.        *)

BTICK == 96   \* '`'

Accept(v) == [ok |-> TRUE, err |-> "", val |-> v]
Reject(msg) == [ok |-> FALSE, err |-> msg, val |-> {}]

\* No two list items are the same: len(list) > len(set(list)) is false.
NoDuplicates(l) == Len(l) = Cardinality(ToSet(l))

\* Variant that compares with the list sorted by code point.
check_apis_sorted_by_code_point(apis_string) ==
    LET apis == splitlines(strip(apis_string))
        stripped_apis == [i \in 1..Len(apis) |-> StripBullet(apis[i])]
    IN  IF apis = <<>> THEN Reject("Empty Relevant APIs.")
        ELSE IF \E i \in 1..Len(apis) : BTICK \in ToSet(stripped_apis[i])
            THEN Reject("API should not include backticks.")
        ELSE IF <<>> \in ToSet(stripped_apis)
            THEN Reject("Empty line in APIs.")
        ELSE IF ~NoDuplicates(stripped_apis) THEN Reject("Duplicate APIs.")
        ELSE IF stripped_apis # sorted(stripped_apis)
            THEN Reject("APIs are not sorted.")
        ELSE Accept(ToSet(stripped_apis))

check_apis(apis_string) ==
    LET apis == splitlines(strip(apis_string))
        stripped_apis == [i \in 1..Len(apis) |-> StripBullet(apis[i])]
    IN  IF apis = <<>> THEN Reject("Empty Relevant APIs.")
        ELSE IF \E i \in 1..Len(apis) : BTICK \in ToSet(stripped_apis[i])
            THEN Reject("API should not include backticks.")
        ELSE IF <<>> \in ToSet(stripped_apis)
            THEN Reject("Empty line in APIs.")
        ELSE IF ~NoDuplicates(stripped_apis) THEN Reject("Duplicate APIs.")
        ELSE IF stripped_apis # sorted_casefold(stripped_apis)
            THEN Reject("APIs are not sorted.")
        ELSE Accept(ToSet(stripped_apis))

\* str.lower(), str.upper() and str.capitalize() on ASCII text.
lower(s) == [i \in 1..Len(s) |-> IF s[i] \in 65..90 THEN s[i] + 32 ELSE s[i]]
upper(s) == [i \in 1..Len(s) |-> IF s[i] \in 97..122 THEN s[i] - 32 ELSE s[i]]
capitalize(s) ==
    [i \in 1..Len(s) |-> IF i = 1 THEN upper(s)[i] ELSE lower(s)[i]]

exception_proper_nouns ==
    { <<65, 114, 99, 97, 100, 101>>,
      <<65, 114, 99, 71, 73, 83, 32, 79, 110, 108, 105, 110, 101>>,
      <<65, 114, 99, 71, 73, 83, 32, 80, 114, 111>>,
      <<71, 101, 111, 80, 97, 99, 107, 97, 103, 101>>,
      <<79, 65, 117, 116, 104>>,
      <<79, 112, 101, 110, 83, 116, 114, 101, 101, 116, 77, 97, 112>>,
      <<83, 119, 105, 102, 116, 85, 73>>,
      <<87, 101, 98, 32, 77, 101, 114, 99, 97, 116, 111, 114>> }

\* The letter-case test of check_tags fails for t.
WrongLetterCase(t) ==
    /\ lower(t) # t /\ upper(t) # t /\ capitalize(t) # t
    /\ t \notin exception_proper_nouns

\* sep.join(l)
RECURSIVE join(_, _)
join(sep, l) ==
    IF l = <<>> THEN <<>>
    ELSE IF Len(l) = 1 THEN l[1]
    ELSE l[1] \o sep \o join(sep, Tail(l))

\* Variant without the comparison of the joined tags with the text.
check_tags_without_join(tags_string) ==
    LET tags == split(tags_string, COMMA)
        stripped_tags == [i \in 1..Len(tags) |-> strip(tags[i])]
    IN  IF tags = <<>> THEN Reject("Empty tags.")
        ELSE IF \E i \in 1..Len(tags) : WrongLetterCase(stripped_tags[i])
            THEN Reject("Wrong letter case for tag")
        ELSE IF <<>> \in ToSet(stripped_tags)
            THEN Reject("Empty char in tags.")
        ELSE IF ~NoDuplicates(stripped_tags) THEN Reject("Duplicate tags.")
        ELSE IF stripped_tags # sorted_casefold(stripped_tags)
            THEN Reject("Tags are not sorted.")
        ELSE Accept(ToSet(stripped_tags))

check_tags(tags_string) ==
    LET tags == split(tags_string, COMMA)
        stripped_tags == [i \in 1..Len(tags) |-> strip(tags[i])]
    IN  IF tags = <<>> THEN Reject("Empty tags.")
        ELSE IF \E i \in 1..Len(tags) : WrongLetterCase(stripped_tags[i])
            THEN Reject("Wrong letter case for tag")
        ELSE IF <<>> \in ToSet(stripped_tags)
            THEN Reject("Empty char in tags.")
        ELSE IF join(<<COMMA, SP>>, stripped_tags) # strip(tags_string)
            THEN Reject("Extra whitespaces in tags.")
        ELSE IF ~NoDuplicates(stripped_tags) THEN Reject("Duplicate tags.")
        ELSE IF stripped_tags # sorted_casefold(stripped_tags)
            THEN Reject("Tags are not sorted.")
        ELSE Accept(ToSet(stripped_tags))

---------------------------------------------------------------------------
(* get_readme_parts: re.split and re.findall with the section pattern,     *)
(* which is compiled with re.MULTILINE.                                    *)

\* Variant whose pattern is not anchored at the start of a line.
PatternMatchesAt_unanchored(s, p) ==
    /\ p + 2 <= Len(s)
    /\ s[p] = HASH /\ s[p + 1] = HASH
    /\ s[p + 2] # HASH
    /\ s[p + 2] \in Whitespace

\* The pattern matches at position p of s: p starts a line, two '#' follow,
\* the next character is not '#' and is a whitespace character.
PatternMatchesAt(s, p) ==
    /\ p + 2 <= Len(s)
    /\ p = 1 \/ s[p - 1] = LF
    /\ s[p] = HASH /\ s[p + 1] = HASH
    /\ s[p + 2] # HASH
    /\ s[p + 2] \in Whitespace

\* The last position of the match at p: the group runs up to the line
\* boundary.
MatchEnd(s, p) ==
    LET stops == {i \in (p + 3)..Len(s) : s[i] = LF}
    IN  IF stops = {} THEN Len(s)
        ELSE (CHOOSE i \in stops : \A j \in stops : i <= j) - 1

\* The first match at or after position from; 0 when there is none.
NextMatch(s, from) ==
    LET ps == {p \in from..Len(s) : PatternMatchesAt(s, p)}
    IN  IF ps = {} THEN 0 ELSE CHOOSE p \in ps : \A q \in ps : p <= q

\* re.split(pattern, s) from position from on: the text before each match
\* and the group of the match, then the text after the last match.
RECURSIVE re_split(_, _)
re_split(s, from) ==
    LET p == NextMatch(s, from)
    IN  IF p = 0 THEN <<SubSeq(s, from, Len(s))>>
        ELSE <<SubSeq(s, from, p - 1), SubSeq(s, p + 3, MatchEnd(s, p))>>
                 \o re_split(s, MatchEnd(s, p) + 1)

\* re.findall(pattern, s) from position from on: the group of each match.
RECURSIVE re_findall(_, _)
re_findall(s, from) ==
    LET p == NextMatch(s, from)
    IN  IF p = 0 THEN <<>>
        ELSE <<SubSeq(s, p + 3, MatchEnd(s, p))>>
                 \o re_findall(s, MatchEnd(s, p) + 1)

\* get_readme_parts: the loaded Readme fields.
get_readme_parts(text) ==
    [loaded |-> TRUE,
     readme_parts |-> re_split(text, 1),
     readme_headers |-> re_findall(text, 1)]

---------------------------------------------------------------------------
(* check_sentence_case and class Readme.  A check is modelled by the       *)
(* message of the exception it raises, "" when it returns.                 *)

\* Readme.__init__: readme_parts and readme_headers are None until README.md
\* is loaded; loaded = FALSE stands for both being None.
NewReadme == [loaded |-> FALSE, readme_parts |-> <<>>, readme_headers |-> <<>>]

\* str.split() with no argument: the runs of non-whitespace characters.
RECURSIVE split_whitespace(_)
split_whitespace(s) ==
    LET t == lstrip(s, Whitespace)
        stops == {i \in 1..Len(t) : t[i] \in Whitespace}
        stop == IF stops = {} THEN Len(t) + 1
                ELSE CHOOSE i \in stops : \A j \in stops : i <= j
    IN  IF t = <<>> THEN <<>>
        ELSE <<SubSeq(t, 1, stop - 1)>>
                 \o split_whitespace(SubSeq(t, stop, Len(t)))

LPAREN == 40   \* '('
RPAREN == 41   \* ')'

check_sentence_case(string) ==
    LET words == split_whitespace(string)
        stripped == [i \in 1..Len(words) |->
                        rstrip(lstrip(words[i], {LPAREN, RPAREN}),
                               {LPAREN, RPAREN})]
    IN  IF string = <<>> THEN "Empty title string."
        ELSE IF string \in exception_proper_nouns THEN ""
        ELSE IF words = <<>> THEN "IndexError"
        ELSE IF /\ upper(<<words[1][1]>>) # <<words[1][1]>>
                /\ upper(words[1]) # words[1]
                /\ words[1] \notin exception_proper_nouns
            THEN "Wrong letter case for the first word in title."
        ELSE IF \E i \in 2..Len(words) :
                    /\ lower(stripped[i]) # stripped[i]
                    /\ upper(stripped[i]) # stripped[i]
                    /\ stripped[i] \notin exception_proper_nouns
            THEN "Wrong letter case for word in title."
        ELSE ""

\* Readme.populate_from_readme: [err, r].
Readme_populate_from_readme(can_read, text) ==
    IF can_read THEN [err |-> "", r |-> get_readme_parts(text)]
    ELSE [err |-> "Error loading file", r |-> NewReadme]

\* Readme.check_format_heading; set(None) is a TypeError.
Readme_check_format_heading(r) ==
    IF ~r.loaded THEN "TypeError" ELSE check_format_heading(r.readme_headers)

Readme_check_format_title_section(r) ==
    LET head == parse_head(r.readme_parts[1])
    IN  IF ~r.loaded THEN "Error title"
        ELSE IF ~head.ok THEN "Error title"
        ELSE IF check_sentence_case(head.val[1]) # "" THEN "Error title"
        ELSE ""

\* self.readme_parts[self.readme_parts.index(header) + 1]: [ok, val].
SectionAfter(r, header) ==
    LET pos == IndexOf(r.readme_parts, header)
    IN  IF ~r.loaded \/ pos = 0 \/ pos + 1 > Len(r.readme_parts) THEN Raise
        ELSE Return(r.readme_parts[pos + 1])

\* Variant that passes when README.md was not loaded.
Readme_check_format_apis_if_loaded(r) ==
    LET section == SectionAfter(r, H_RelevantApi)
    IN  IF ~r.loaded THEN ""
        ELSE IF ~section.ok THEN "Error APIs"
        ELSE IF ~check_apis(section.val).ok THEN "Error APIs"
        ELSE ""

Readme_check_format_apis(r) ==
    LET section == SectionAfter(r, H_RelevantApi)
    IN  IF ~section.ok THEN "Error APIs"
        ELSE IF ~check_apis(section.val).ok THEN "Error APIs"
        ELSE ""

Readme_check_format_tags(r) ==
    LET section == SectionAfter(r, H_Tags)
    IN  IF ~section.ok THEN "Error tags"
        ELSE IF ~check_tags(section.val).ok THEN "Error tags"
        ELSE ""

\* Variant that does not compare the two sets.
Readme_check_redundant_apis_in_tags_formats_only(r) ==
    LET tags_section == SectionAfter(r, H_Tags)
        api_section  == SectionAfter(r, H_RelevantApi)
    IN  IF ~tags_section.ok \/ ~api_section.ok
            THEN "Error checking extra tags due to previous error"
        ELSE IF ~check_apis(api_section.val).ok
            THEN "Error checking extra tags due to previous error"
        ELSE IF ~check_tags(tags_section.val).ok
            THEN "Error checking extra tags due to previous error"
        ELSE ""

Readme_check_redundant_apis_in_tags(r) ==
    LET tags_section == SectionAfter(r, H_Tags)
        api_section  == SectionAfter(r, H_RelevantApi)
        api_set      == check_apis(api_section.val)
        tag_set      == check_tags(tags_section.val)
    IN  IF ~tags_section.ok \/ ~api_section.ok
            THEN "Error checking extra tags due to previous error"
        ELSE IF ~api_set.ok
            THEN "Error checking extra tags due to previous error"
        ELSE IF ~tag_set.ok
            THEN "Error checking extra tags due to previous error"
        ELSE IF api_set.val \cap tag_set.val # {}
            THEN "Error checking extra tags due to previous error"
        ELSE ""

\* How many of the messages are exceptions.
Failures(errs) == Cardinality({i \in 1..Len(errs) : errs[i] # ""})

\* readme_checker.run_check(path, count): [r, errs, count], errs the
\* message of each of the six steps.
readme_run_check(can_read, text, n) ==
    LET loading == Readme_populate_from_readme(can_read, text)
        r == loading.r
        errs == << loading.err,
                   Readme_check_format_heading(r),
                   Readme_check_format_title_section(r),
                   Readme_check_format_apis(r),
                   Readme_check_format_tags(r),
                   Readme_check_redundant_apis_in_tags(r) >>
    IN  [r |-> r, errs |-> errs, count |-> n + Failures(errs)]

---------------------------------------------------------------------------
(* class Metadata.                                                         *)

\* Metadata.__init__
NewMetadata ==
    [category |-> <<>>, description |-> <<>>, ignore |-> FALSE,
     images |-> <<>>, keywords |-> <<>>, redirect_from |-> <<>>,
     relevant_apis |-> <<>>, snippets |-> <<>>, title |-> <<>>,
     offline_data |-> <<>>]

\* Variant that compares title and folder name without regard to case.
TitleMatchesFolder_casefold(title, folder) == casefold(title) = casefold(folder)

\* not (self.title != self.folder_name)
TitleMatchesFolder(title, folder) == title = folder

\* Variant that appends the APIs without removing them from the tags.
merge_keywords_no_dedup(keywords, relevant_apis) == keywords \o relevant_apis

\* [w for w in keywords if w not in relevant_apis] + relevant_apis
merge_keywords(keywords, relevant_apis) ==
    SelectSeq(keywords, LAMBDA w : w \notin ToSet(relevant_apis))
        \o relevant_apis

\* Metadata.populate_from_readme on the parts get_readme_parts returned:
\* [err, c] with the exception raised (NoErr if none) and the object as the
\* call leaves it.
populate_from_readme(c, parts, folder) ==
    LET api_pos  == IndexOf(parts, H_RelevantApi)
        tags_pos == IndexOf(parts, H_Tags)
        head     == parse_head(parts[1])
        c1       == [c EXCEPT !.title = head.val[1],
                              !.description = head.val[2]]
        apis     == parse_apis(parts[api_pos + 1])
        c2       == [c1 EXCEPT !.relevant_apis = apis.val]
        tags     == parse_tags(parts[tags_pos + 1])
        c3       == [c2 EXCEPT !.keywords =
                                  merge_keywords(tags.val, c2.relevant_apis)]
    IN  IF api_pos = 0 \/ tags_pos = 0 THEN [err |-> Err("ValueError"), c |-> c]
        ELSE IF ~head.ok
            THEN [err |-> Err("README description parse failure!"), c |-> c]
        ELSE IF ~TitleMatchesFolder(c1.title, folder)
            THEN [err |-> ErrAbout("Folder name incorrect", folder), c |-> c1]
        ELSE IF api_pos + 1 > Len(parts)
            THEN [err |-> Err("IndexError"), c |-> c1]
        ELSE IF ~apis.ok
            THEN [err |-> Err("README Relevant API parse failure!"), c |-> c1]
        ELSE IF tags_pos + 1 > Len(parts)
            THEN [err |-> Err("IndexError"), c |-> c2]
        ELSE IF ~tags.ok
            THEN [err |-> Err("README Tags parse failure!"), c |-> c2]
        ELSE [err |-> NoErr, c |-> c3]

\* os.path.splitext(file)[1]: from the last dot on, unless only dots
\* precede it.
splitext_ext(file) ==
    LET dots == {i \in 1..Len(file) : file[i] = DOT}
        last == CHOOSE i \in dots : \A j \in dots : j <= i
    IN  IF dots = {} THEN <<>>
        ELSE IF \A j \in 1..(last - 1) : file[j] = DOT THEN <<>>
        ELSE SubSeq(file, last, Len(file))

EXT_SWIFT == <<46, 115, 119, 105, 102, 116>>
EXT_PNG   == <<46, 112, 110, 103>>
EXT_GIF   == <<46, 103, 105, 102>>

\* Metadata.get_source_code_paths: [ok, val].
get_source_code_paths(files) ==
    LET results == SelectSeq(files, LAMBDA f : splitext_ext(f) = EXT_SWIFT)
    IN  IF results = <<>> THEN Raise ELSE Return(sorted(results))

\* Variant that compares the extension with its letter case.
get_images_paths_cased(files) ==
    LET results == SelectSeq(files,
                       LAMBDA f : splitext_ext(f) \in {EXT_PNG, EXT_GIF})
    IN  IF results = <<>> THEN Raise ELSE Return(sorted(results))

\* Metadata.get_images_paths: [ok, val].
get_images_paths(files) ==
    LET results == SelectSeq(files,
                       LAMBDA f : casefold(splitext_ext(f)) \in {EXT_PNG, EXT_GIF})
    IN  IF results = <<>> THEN Raise ELSE Return(sorted(results))

\* Metadata.populate_from_paths: [err, c].
populate_from_paths(c, files) ==
    LET images   == get_images_paths(files)
        c1       == [c EXCEPT !.images = images.val]
        snippets == get_source_code_paths(files)
    IN  IF ~images.ok
            THEN [err |-> Err("Unable to get images paths."), c |-> c]
        ELSE IF ~snippets.ok
            THEN [err |-> Err("Unable to get swift source code paths."),
                  c |-> c1]
        ELSE [err |-> NoErr, c |-> [c1 EXCEPT !.snippets = snippets.val]]

\* MetadataCreator.get_images_paths: [ok, val]; never raises.
MetadataCreator_get_images_paths(files) ==
    LET results == SelectSeq(files,
                       LAMBDA f : casefold(splitext_ext(f)) \in {EXT_PNG, EXT_GIF})
    IN  Return(sorted(results))

\* Metadata.populate_from_paths on a MetadataCreator, whose
\* self.get_images_paths is the override: [err, c].
MetadataCreator_populate_from_paths(c, files) ==
    LET images   == MetadataCreator_get_images_paths(files)
        c1       == [c EXCEPT !.images = images.val]
        snippets == get_source_code_paths(files)
    IN  IF ~snippets.ok
            THEN [err |-> Err("Unable to get swift source code paths."),
                  c |-> c1]
        ELSE [err |-> NoErr, c |-> [c1 EXCEPT !.snippets = snippets.val]]

\* create_one_metadata up to the write of the file: [err, c].
create_one_metadata(c, parts, folder, files) ==
    LET r == populate_from_readme(c, parts, folder)
    IN  IF r.err # NoErr THEN r
        ELSE MetadataCreator_populate_from_paths(r.c, files)

\* The keys of the metadata dict in the order sort_keys=True writes them.
SortedKeys ==
    <<"category", "description", "ignore", "images", "keywords",
      "offline_data", "redirect_from", "relevant_apis", "snippets", "title">>

\* json.dumps(data, indent=4, sort_keys=True): the text is the list of
\* "key": value members in sorted key order, so it is modelled as that list.
json_dumps(data) ==
    LET keys == SelectSeq(SortedKeys, LAMBDA k : k \in DOMAIN data)
    IN  [i \in 1..Len(keys) |-> <<keys[i], data[keys[i]]>>]

\* Metadata.flush_to_json_string
flush_to_json_string(c) ==
    LET keys == {"category", "description", "ignore", "images", "keywords",
                 "redirect_from", "relevant_apis", "snippets", "title"}
                \cup (IF c.offline_data # <<>> THEN {"offline_data"} ELSE {})
    IN  json_dumps([k \in keys |-> c[k]])

\* The set categories.
categories ==
    { <<65, 110, 97, 108, 121, 115, 105, 115>>,
      <<65, 117, 103, 109, 101, 110, 116, 101, 100, 32, 82, 101, 97, 108,
        105, 116, 121>>,
      <<67, 108, 111, 117, 100, 32, 97, 110, 100, 32, 80, 111, 114, 116, 97,
        108>>,
      <<69, 100, 105, 116, 32, 97, 110, 100, 32, 77, 97, 110, 97, 103, 101,
        32, 68, 97, 116, 97>>,
      <<76, 97, 121, 101, 114, 115>>,
      <<77, 97, 112, 115>>,
      <<83, 99, 101, 110, 101, 115>>,
      <<82, 111, 117, 116, 105, 110, 103, 32, 97, 110, 100, 32, 76, 111, 103,
        105, 115, 116, 105, 99, 115>>,
      <<83, 101, 97, 114, 99, 104, 32, 97, 110, 100, 32, 81, 117, 101, 114,
        121>>,
      <<85, 116, 105, 108, 105, 116, 121, 32, 78, 101, 116, 119, 111, 114,
        107, 115>>,
      <<86, 105, 115, 117, 97, 108, 105, 122, 97, 116, 105, 111, 110>> }

\* Metadata.check_category: the exception raised, NoErr if none.
check_category(c) ==
    IF c.category = <<>> THEN Err("Error category - Missing category.")
    ELSE IF c.category \notin categories
        THEN ErrAbout("Error category - Invalid category", c.category)
    ELSE NoErr

---------------------------------------------------------------------------
(* metadata_checker.run_check from the loading of the JSON on.             *)

\* Variant that leaves redirect_from as derived.
copy_persisted_fields_no_redirect(c, data) ==
    LET c1 == [c EXCEPT !.category = data["category"]]
    IN  IF "offline_data" \in DOMAIN data
        THEN [c1 EXCEPT !.offline_data = data["offline_data"]]
        ELSE c1

\* Variant that also takes ignore from the persisted record.
copy_persisted_fields_and_ignore(c, data) ==
    LET c1 == [c EXCEPT !.category = data["category"],
                        !.redirect_from = data["redirect_from"],
                        !.ignore = data["ignore"]]
    IN  IF "offline_data" \in DOMAIN data
        THEN [c1 EXCEPT !.offline_data = data["offline_data"]]
        ELSE c1

\* Lines 49-57: category, redirect_from and, when present, offline_data are
\* taken from the persisted record (both keys are known to be present).
copy_persisted_fields(c, data) ==
    LET c1 == [c EXCEPT !.category = data["category"],
                        !.redirect_from = data["redirect_from"]]
    IN  IF "offline_data" \in DOMAIN data
        THEN [c1 EXCEPT !.offline_data = data["offline_data"]]
        ELSE c1

\* Variant that accepts only the exact special-character-free description.
description_is_lenient_exact(persisted, derived) ==
    persisted = sub_special_char(derived)

\* json_data['description'] in sub_special_char(checker.description)
description_is_lenient(persisted, derived) ==
    IsSubstring(persisted, sub_special_char(derived))

\* Variant that compares the persisted snippets without sorting them.
snippets_are_lenient_unsorted(persisted, derived) == persisted = derived

\* sorted(json_data['snippets']) == checker.snippets
snippets_are_lenient(persisted, derived) == sorted(persisted) = derived

\* Lines 49-85 on the loaded dict: [err, c].
compare_with_json(c, data) ==
    LET c1 == copy_persisted_fields(c, data)
        c2 == IF description_is_lenient(data["description"], c1.description)
              THEN [c1 EXCEPT !.description = data["description"]] ELSE c1
        c3 == IF snippets_are_lenient(data["snippets"], c2.snippets)
              THEN [c2 EXCEPT !.snippets = data["snippets"]] ELSE c2
    IN  IF "category" \notin DOMAIN data
            THEN [err |-> Err("KeyError: category"), c |-> c]
        ELSE IF "redirect_from" \notin DOMAIN data
            THEN [err |-> Err("KeyError: redirect_from"),
                  c |-> [c EXCEPT !.category = data["category"]]]
        ELSE IF "description" \notin DOMAIN data
            THEN [err |-> Err("KeyError: description"), c |-> c1]
        ELSE IF "snippets" \notin DOMAIN data
            THEN [err |-> Err("KeyError: snippets"), c |-> c2]
        ELSE IF flush_to_json_string(c3) # json_dumps(data)
            THEN [err |-> Err("Error inconsistent metadata"), c |-> c3]
        ELSE [err |-> check_category(c3), c |-> c3]

\* json_data before the file is read.
NoJson == [loaded |-> FALSE]

---------------------------------------------------------------------------
(* run_check of the two checkers on a sample folder, and the loop of       *)
(* all_samples.  A sample is [name, files, readable, text, has_json, json]:*)
(* the folder name, os.listdir of the folder, whether README.md can be     *)
(* read and its text, whether README.metadata.json loads and its content.  *)

ReadmeRules == <<"populate", "heading", "title", "apis", "tags", "redundant">>
MetaRules == {"derivation", "diff", "category"}

\* What a run_check call did: the rules it evaluated, those that failed.
Report(rules, failed) == [rules |-> rules, failed |-> failed]

\* Variant that returns at the first step that raises.
readme_run_report_stop_at_first(errs) ==
    LET bad == {i \in 1..Len(errs) : errs[i] # ""}
        last == IF bad = {} THEN Len(errs)
                ELSE CHOOSE i \in bad : \A j \in bad : i <= j
    IN  Report({ReadmeRules[i] : i \in 1..last},
               {ReadmeRules[i] : i \in bad \cap 1..last})

\* readme_checker.run_check: every step runs in a try block of its own.
readme_run_report(errs) ==
    Report({ReadmeRules[i] : i \in 1..Len(errs)},
           {ReadmeRules[i] : i \in {j \in 1..Len(errs) : errs[j] # ""}})

KeyErrors ==
    {"KeyError: category", "KeyError: redirect_from",
     "KeyError: description", "KeyError: snippets"}

\* metadata_checker.run_check(path): [err, report]; the first exception
\* ends the call.
meta_run_check(sample) ==
    LET parts == get_readme_parts(sample.text).readme_parts
        r1 == populate_from_readme(NewMetadata, parts, sample.name)
        r2 == populate_from_paths(r1.c, sample.files)
        r3 == compare_with_json(r2.c, sample.json)
    IN  IF ~sample.readable
            THEN [err |-> Err("Error reading README"),
                  report |-> Report({"derivation"}, {"derivation"})]
        ELSE IF r1.err # NoErr
            THEN [err |-> r1.err,
                  report |-> Report({"derivation"}, {"derivation"})]
        ELSE IF r2.err # NoErr
            THEN [err |-> r2.err,
                  report |-> Report({"derivation"}, {"derivation"})]
        ELSE IF ~sample.has_json
            THEN [err |-> Err("Error reading JSON"),
                  report |-> Report({"derivation"}, {})]
        ELSE IF r3.err.kind \in KeyErrors
            THEN [err |-> r3.err, report |-> Report({"derivation"}, {})]
        ELSE IF r3.err.kind = "Error inconsistent metadata"
            THEN [err |-> r3.err,
                  report |-> Report({"derivation", "diff"}, {"diff"})]
        ELSE IF r3.err # NoErr
            THEN [err |-> r3.err, report |-> Report(MetaRules, {"category"})]
        ELSE [err |-> NoErr, report |-> Report(MetaRules, {})]

DS_Store == <<46, 68, 83, 95, 83, 116, 111, 114, 101>>

\* file.startswith('.DS_Store')
StartsWithDsStore(file) ==
    Len(file) >= Len(DS_Store) /\ SubSeq(file, 1, Len(DS_Store)) = DS_Store

\* all_samples: the folder is omitted as empty.
IsOmitted(files) ==
    SelectSeq(files, LAMBDA f : ~StartsWithDsStore(f)) = <<>>

\* Variant that keeps only whether the last sample failed.
meta_count_last_only(n, sample) ==
    IF meta_run_check(sample).err # NoErr THEN 1 ELSE 0

\* metadata_checker.all_samples: exception_count after the try block.
meta_count(n, sample) ==
    IF meta_run_check(sample).err # NoErr THEN n + 1 ELSE n

\* readme_checker.all_samples: exception_count after run_check.
readme_count(n, sample) ==
    readme_run_check(sample.readable, sample.text, n).count

---------------------------------------------------------------------------
(* Bounds and input alphabets.                                             *)

MaxList    == 3   \* longest list handed to check_is_subsequence directly
MaxHeaders == 6   \* most section headers in one README
MaxText    == 4   \* longest free-form section text
MaxName    == 3   \* longest sample name in a generated title block
MaxBody    == 3   \* longest 'Relevant API' / 'Tags' body handed to derivation
MaxDesc    == 3   \* longest persisted description
MaxFiles   == 3   \* most files in a folder handed to the path derivation
MaxFormat  == 4   \* longest section text handed to check_apis / check_tags
MaxContent == 8   \* longest README text handed to get_readme_parts directly
MaxCount   == 2   \* largest count handed to readme_checker.run_check
MaxSamples == 3   \* most sample folders under Samples/ in one all_samples run

\* Items of the lists handed to check_is_subsequence directly.
SubseqItems == {<<97>>, <<98>>, <<99>>}

\* Header names a README may contain: the eight allowed ones and one other.
H_Other == <<78, 111, 116, 101, 115>>
ObservedHeaders == ToSet(available_headers) \cup {H_Other}

\* Free-form section texts: every text over these characters ('a', 'B').
TextAlphabet == {LF, SP, HASH, STAR, COMMA, 97, 66}

\* Title blocks '# <name>' followed by further lines ('d', 'i', 'j').
NameAlphabet == {HASH, SP, TAB, 97}
HeadTails ==
    { <<>>,
      <<LF, 100>>,
      <<LF, 100, LF, 105>>,
      <<LF, LF, 100, LF, LF, 105, LF>>,
      <<LF, 100, LF, 105, LF, 106>> }
HeadBlocks ==
    { <<HASH, SP>> \o name \o tl :
        name \in BoundedSeqs(NameAlphabet, MaxName), tl \in HeadTails }

TextInputs == BoundedSeqs(TextAlphabet, MaxText) \cup HeadBlocks

\* Inputs of check_apis and check_tags: every short text over the line
\* boundary, the bullet, the comma, the space, the backtick and two letters,
\* and a few tag lists with the proper nouns exempt from the letter-case rule.
FormatAlphabet == {LF, SP, STAR, COMMA, BTICK, 97, 66}
T_OAuth   == <<79, 65, 117, 116, 104>>
T_Arcade  == <<65, 114, 99, 97, 100, 101>>
T_SwiftUi == <<83, 119, 105, 102, 116, 85, 105>>
FormatInputs ==
    BoundedSeqs(FormatAlphabet, MaxFormat)
        \cup { T_OAuth, T_SwiftUi,
               T_Arcade \o <<COMMA, SP>> \o T_OAuth,
               T_OAuth \o <<COMMA, SP>> \o T_Arcade,
               <<STAR, SP>> \o T_Arcade \o <<LF, STAR, SP>> \o T_OAuth }

\* Inputs of get_readme_parts: every short text over '#', the space, the
\* line boundary and one letter.
SplitAlphabet == {HASH, SP, LF, 97}
\* '# a', '### a', '## a', 'a', '##', 'a' on a line each.
SplitDocument ==
    <<HASH, SP, 97, LF, HASH, HASH, HASH, SP, 97, LF, HASH, HASH, SP, 97, LF,
      97, LF, HASH, HASH, LF, 97>>
SplitInputs == BoundedSeqs(SplitAlphabet, MaxContent) \cup {SplitDocument}

\* Inputs of readme_checker.run_check: README texts made of a title block
\* and sections.  The title blocks are 'A b', 'a b', 'A bB' and 'OAuth' with
\* a description and an image line, and 'A' without them.
Section(header, text) ==
    <<HASH, HASH, SP>> \o header \o <<LF, LF>> \o text \o <<LF>>
TitleBlock(name) == <<HASH, SP>> \o name \o <<LF, LF, 100, LF, LF, 105, LF, LF>>
T_Good == TitleBlock(<<65, SP, 98>>)
ReadmeTitles ==
    { T_Good, TitleBlock(<<97, SP, 98>>), TitleBlock(<<65, SP, 98, 66>>),
      TitleBlock(T_OAuth), <<HASH, SP, 65, LF>> }
ReadmeApiTexts ==
    BoundedSeqs({LF, BTICK, 97, 66}, MaxBody)
        \cup { <<STAR, SP, 97, LF, STAR, SP, 66>> }
ReadmeTagTexts ==
    BoundedSeqs({COMMA, SP, 97, 66}, MaxBody)
        \cup { <<97, COMMA, SP, 66>>, <<66, COMMA, SP, 99>> }
FirstSections ==
    Section(H_UseCase, <<120>>) \o Section(H_HowToUseTheSample, <<120>>)
ReadmeLayouts6(title, apis, tags) ==
    { title \o FirstSections \o Section(H_HowItWorks, <<120>>)
          \o Section(H_RelevantApi, apis) \o Section(H_Tags, tags),
      title \o FirstSections \o Section(H_RelevantApi, apis)
          \o Section(H_Tags, tags),
      title \o FirstSections \o Section(H_HowItWorks, <<120>>)
          \o Section(H_Tags, tags) \o Section(H_RelevantApi, apis),
      title \o FirstSections \o Section(H_HowItWorks, <<120>>)
          \o Section(H_RelevantApi, apis) }
ReadmeDocs ==
    UNION { ReadmeLayouts6(title, <<STAR, SP, 97, LF, STAR, SP, 66>>, tags) :
              title \in ReadmeTitles,
              tags \in {<<66, COMMA, SP, 99>>, <<97, COMMA, SP, 66>>} }
        \cup { T_Good \o FirstSections \o Section(H_HowItWorks, <<120>>)
                   \o Section(H_RelevantApi, apis) \o Section(H_Tags, tags) :
                   apis \in ReadmeApiTexts, tags \in ReadmeTagTexts }

\* Inputs of the README derivation: folder names 'a', 'A', 'B'; title blocks
\* for the names 'a', 'B' and '#a' and one block that is too short; section
\* bodies over a few characters; the sections in either order or missing.
PopulateFolders == {<<97>>, <<65>>, <<66>>}
PopulateHeads ==
    { <<HASH, SP, 97, LF, 100, LF, 105>>,
      <<HASH, SP, 66, LF, LF, 100, SP, LF, 105>>,
      <<HASH, SP, HASH, 97, LF, 100, LF, 105>>,
      <<HASH, SP, 97, LF, 100>> }
ApiBodies == BoundedSeqs({LF, 97, 66}, MaxBody)
TagBodies == BoundedSeqs({COMMA, 97, 66}, MaxBody)
ReadmeLayouts(head, apis, tags) ==
    { <<head, H_RelevantApi, apis, H_Tags, tags>>,
      <<head, H_Tags, tags, H_RelevantApi, apis>>,
      <<head, H_UseCase, apis, H_Tags, tags>> }
PopulateReadmes ==
    UNION { ReadmeLayouts(head, apis, tags) :
              head \in PopulateHeads, apis \in ApiBodies, tags \in TagBodies }

\* Inputs of the whole consistency check: the sample 'a' with one of three
\* descriptions ('a!b', 'ab', 'b#'), a README for another name, one without
\* a Tags section; folders with and without images and sources.
F_ASwift == <<65, 46, 115, 119, 105, 102, 116>>
F_BSwift == <<66, 46, 115, 119, 105, 102, 116>>
F_Png    == <<105, 46, 112, 110, 103>>
F_PNG    == <<73, 46, 80, 78, 71>>
F_Readme == <<82, 46, 109, 100>>
F_Gif    == <<103, 46, 103, 105, 102>>
F_Swift  == <<99, 46, 83, 119, 105, 102, 116>>
F_Hidden == <<46, 115, 119, 105, 102, 116>>
PathFiles ==
    {F_ASwift, F_BSwift, F_Png, F_PNG, F_Gif, F_Swift, F_Hidden, F_Readme}
\* os.listdir: distinct names in any order.
PathListings ==
    {l \in BoundedSeqs(PathFiles, MaxFiles) :
        \A i, j \in 1..Len(l) : i # j => l[i] # l[j]}
CAT_Maps  == <<77, 97, 112, 115>>
CAT_Bogus == <<66, 111, 103, 117, 115>>
ID_x      == <<120>>

CheckDescriptions == {<<97, BANG, 98>>, <<97, 98>>, <<98, HASH>>}
CheckApiBody == <<LF, STAR, SP, 66, LF>>
CheckTagBody == <<LF, 97, COMMA, SP, 66, COMMA, SP, 99, LF>>
CheckReadmes ==
    { <<(<<HASH, SP, 97, LF>> \o d \o <<LF, 105>>),
        H_RelevantApi, CheckApiBody, H_Tags, CheckTagBody>> :
        d \in CheckDescriptions }
    \cup { <<(<<HASH, SP, 66, LF, 97, 98, LF, 105>>),
             H_RelevantApi, CheckApiBody, H_Tags, CheckTagBody>>,
           <<(<<HASH, SP, 97, LF, 97, 98, LF, 105>>),
             H_RelevantApi, CheckApiBody>> }
CheckListings ==
    { <<F_BSwift, F_Png, F_ASwift, F_Readme>>,
      <<F_ASwift, F_PNG>>,
      <<F_ASwift, F_Readme>>,
      <<F_Png>> }

\* The persisted records README.metadata.json may hold.  A choice <<p, v>>
\* is a key that is present with value v, or absent when p is FALSE.
Present(v) == <<TRUE, v>>
Absent     == <<FALSE, <<>>>>
PersistedCategories   == {Absent, Present(<<>>), Present(CAT_Maps), Present(CAT_Bogus)}
PersistedRedirects    == {Absent, Present(<<>>), Present(<<ID_x>>)}
PersistedOfflineData  == {Absent, Present(<<>>), Present(<<ID_x>>)}
PersistedDescriptions == BoundedSeqs({97, 98, BANG}, MaxDesc)
PersistedTitles       == {<<97>>, <<66>>}
PersistedImages       == {<<F_Png>>, <<F_PNG>>}
PersistedKeywords     == {<<<<97>>, <<99>>, <<66>>>>, <<<<66>>, <<97>>, <<99>>>>}
PersistedApis         == {<<<<66>>>>, <<>>}
PersistedSnippets     == {<<F_ASwift>>, <<F_ASwift, F_BSwift>>, <<F_BSwift, F_ASwift>>}

PersistedRecord(cat, red, off, desc, ign, img, kw, apis, snip, title) ==
    LET keys == {"description", "ignore", "images", "keywords",
                 "relevant_apis", "snippets", "title"}
                \cup (IF cat[1] THEN {"category"} ELSE {})
                \cup (IF red[1] THEN {"redirect_from"} ELSE {})
                \cup (IF off[1] THEN {"offline_data"} ELSE {})
    IN  [k \in keys |->
            CASE k = "category"      -> cat[2]
              [] k = "redirect_from" -> red[2]
              [] k = "offline_data"  -> off[2]
              [] k = "description"   -> desc
              [] k = "ignore"        -> ign
              [] k = "images"        -> img
              [] k = "keywords"      -> kw
              [] k = "relevant_apis" -> apis
              [] k = "snippets"      -> snip
              [] k = "title"         -> title]

\* The sample folders of the all_samples runs: the sample 'A b' in good
\* order, with a persisted category that is not allowed, with a persisted
\* title of another sample, without image, without README.md, with the tags
\* out of order, without README.metadata.json; an empty folder and a folder
\* that holds only '.DS_Store'.
N_Ab == <<65, SP, 98>>
BatchText(tags) ==
    T_Good \o FirstSections \o Section(H_HowItWorks, <<120>>)
        \o Section(H_RelevantApi, <<STAR, SP, 97, LF, STAR, SP, 66>>)
        \o Section(H_Tags, tags)
GoodText == BatchText(<<99, COMMA, SP, 100>>)
GoodFiles == <<F_Readme, F_ASwift, F_Png>>
GoodDerivation ==
    populate_from_paths(
        populate_from_readme(NewMetadata,
                             get_readme_parts(GoodText).readme_parts, N_Ab).c,
        GoodFiles).c
RecordOf(c, cat, title) ==
    PersistedRecord(Present(cat), Present(<<>>), Absent, c.description, FALSE,
                    c.images, c.keywords, c.relevant_apis, c.snippets, title)
GoodJson == RecordOf(GoodDerivation, CAT_Maps, N_Ab)
Sample(files, can_read, text, loads, json) ==
    [name |-> N_Ab, files |-> files, readable |-> can_read, text |-> text,
     has_json |-> loads, json |-> json]
S_Good        == Sample(GoodFiles, TRUE, GoodText, TRUE, GoodJson)
S_BadCategory ==
    Sample(GoodFiles, TRUE, GoodText, TRUE,
           RecordOf(GoodDerivation, CAT_Bogus, N_Ab))
S_Stale ==
    Sample(GoodFiles, TRUE, GoodText, TRUE,
           RecordOf(GoodDerivation, CAT_Maps, <<66>>))
S_NoImage  == Sample(<<F_Readme, F_ASwift>>, TRUE, GoodText, TRUE, GoodJson)
S_NoReadme == Sample(<<F_ASwift, F_Png>>, FALSE, <<>>, TRUE, GoodJson)
S_UnsortedTags ==
    Sample(GoodFiles, TRUE, BatchText(<<100, COMMA, SP, 99>>), TRUE, GoodJson)
S_NoJson   == Sample(GoodFiles, TRUE, GoodText, FALSE, GoodJson)
S_Empty    == Sample(<<>>, FALSE, <<>>, FALSE, GoodJson)
S_DsStore  == Sample(<<DS_Store>>, FALSE, <<>>, FALSE, GoodJson)
BatchSamples ==
    { S_Good, S_BadCategory, S_Stale, S_NoImage, S_NoReadme, S_UnsortedTags,
      S_NoJson, S_Empty, S_DsStore }

---------------------------------------------------------------------------
(* Values of the variables a specification does not use.                   *)

NoRet == [fn |-> "", ok |-> FALSE, val |-> <<>>]

IdleSubseq  == list_a = <<>> /\ list_b = <<>> /\ subseq_ret = -1
IdleHeading == readme_headers = <<>> /\ heading_err = "not run"
IdleParse   == arg = <<>> /\ ret = NoRet
IdleMeta ==
    /\ folder_name = <<>> /\ readme_parts = <<>> /\ listing = <<>>
    /\ checker = NewMetadata /\ json_data = NoJson /\ meta_err = NoErr

IdleReadme ==
    /\ content = <<>> /\ readable = FALSE /\ readme = NewReadme
    /\ rule_errs = <<>> /\ count0 = 0 /\ count = 0
IdleBatch ==
    /\ samples = <<>> /\ next_idx = 0 /\ exception_count = 0
    /\ checked = <<>> /\ evaluated = <<>> /\ batch_result = "not run"

---------------------------------------------------------------------------
(* Specification of direct calls of check_is_subsequence.                  *)

InitSubseq ==
    /\ pc = "subseq"
    /\ list_a \in BoundedSeqs(SubseqItems, MaxList)
    /\ list_b \in BoundedSeqs(SubseqItems, MaxList)
    /\ subseq_ret = -1
    /\ IdleHeading /\ IdleParse /\ IdleMeta /\ IdleReadme /\ IdleBatch

CallCheckIsSubsequence ==
    /\ pc = "subseq"
    /\ pc' = "subseq done"
    /\ subseq_ret' = check_is_subsequence(list_a, list_b)
    /\ UNCHANGED <<list_a, list_b, headingVars, parseVars, metaVars, readmeVars,
                   batchVars>>

NextSubseq == CallCheckIsSubsequence

SpecSubseq == InitSubseq /\ [][NextSubseq]_vars

---------------------------------------------------------------------------
(* Specification of the heading rule of the README checker.                *)

InitHeading ==
    /\ pc = "heading"
    /\ readme_headers \in BoundedSeqs(ObservedHeaders, MaxHeaders)
    /\ heading_err = "not run"
    /\ IdleSubseq /\ IdleParse /\ IdleMeta /\ IdleReadme /\ IdleBatch

CheckFormatHeading ==
    /\ pc = "heading"
    /\ pc' = "heading done"
    /\ heading_err' = check_format_heading(readme_headers)
    /\ UNCHANGED <<subseqVars, readme_headers, parseVars, metaVars, readmeVars,
                   batchVars>>

NextHeading == CheckFormatHeading

SpecHeading == InitHeading /\ [][NextHeading]_vars

---------------------------------------------------------------------------
(* Specification of the section extractors applied to one section text.    *)

InitParse ==
    /\ pc = "parse"
    /\ arg \in TextInputs
    /\ ret = NoRet
    /\ IdleSubseq /\ IdleHeading /\ IdleMeta /\ IdleReadme /\ IdleBatch

CallParse(fn, r) ==
    /\ pc = "parse"
    /\ pc' = "parse done"
    /\ ret' = [fn |-> fn, ok |-> r.ok, val |-> r.val]
    /\ UNCHANGED <<subseqVars, headingVars, arg, metaVars, readmeVars, batchVars>>

ParseHead == CallParse("parse_head", parse_head(arg))
ParseApis == CallParse("parse_apis", parse_apis(arg))
ParseTags == CallParse("parse_tags", parse_tags(arg))

NextParse == ParseHead \/ ParseApis \/ ParseTags

SpecParse == InitParse /\ [][NextParse]_vars

---------------------------------------------------------------------------
(* metadata_checker.run_check, one action per numbered step.               *)

\* 1. checker.populate_from_readme()
PopulateFromReadme ==
    /\ pc = "meta"
    /\ LET r == populate_from_readme(checker, readme_parts, folder_name)
       IN  /\ checker' = r.c
           /\ meta_err' = r.err
           /\ pc' = IF r.err = NoErr THEN "meta readme" ELSE "meta failed"
    /\ UNCHANGED <<subseqVars, headingVars, parseVars, inputVars, json_data,
                   readmeVars, batchVars>>

\* 1. checker.populate_from_paths()
PopulateFromPaths ==
    /\ pc = "meta readme"
    /\ LET r == populate_from_paths(checker, listing)
       IN  /\ checker' = r.c
           /\ meta_err' = r.err
           /\ pc' = IF r.err = NoErr THEN "meta paths" ELSE "meta failed"
    /\ UNCHANGED <<subseqVars, headingVars, parseVars, inputVars, json_data,
                   readmeVars, batchVars>>

\* 2.-4. load the JSON, apply the special rules, compare, check the category.
CompareWithJson ==
    /\ pc = "meta paths"
    /\ \E cat \in PersistedCategories, red \in PersistedRedirects,
          off \in PersistedOfflineData, desc \in PersistedDescriptions,
          ign \in BOOLEAN, img \in PersistedImages, kw \in PersistedKeywords,
          apis \in PersistedApis, snip \in PersistedSnippets,
          title \in PersistedTitles :
          LET data == PersistedRecord(cat, red, off, desc, ign, img, kw,
                                      apis, snip, title)
              r == compare_with_json(checker, data)
          IN  /\ json_data' = data
              /\ checker' = r.c
              /\ meta_err' = r.err
              /\ pc' = IF r.err = NoErr THEN "meta done" ELSE "meta compared"
    /\ UNCHANGED <<subseqVars, headingVars, parseVars, inputVars, readmeVars,
                   batchVars>>

InitMetaIdle ==
    /\ pc = "meta"
    /\ checker = NewMetadata
    /\ json_data = NoJson
    /\ meta_err = NoErr
    /\ IdleSubseq /\ IdleHeading /\ IdleParse /\ IdleReadme /\ IdleBatch

\* The README derivation alone, on many READMEs.
InitPopulate ==
    /\ InitMetaIdle
    /\ folder_name \in PopulateFolders
    /\ readme_parts \in PopulateReadmes
    /\ listing = <<>>

NextPopulate == PopulateFromReadme

SpecPopulate == InitPopulate /\ [][NextPopulate]_vars

\* The whole check, on a few READMEs and many persisted records.
InitCheck ==
    /\ InitMetaIdle
    /\ folder_name = <<97>>
    /\ readme_parts \in CheckReadmes
    /\ listing \in CheckListings

NextCheck == PopulateFromReadme \/ PopulateFromPaths \/ CompareWithJson

---------------------------------------------------------------------------
(* Specification of the format checks applied to one section text.         *)

InitFormat ==
    /\ pc = "format"
    /\ arg \in FormatInputs
    /\ ret = NoRet
    /\ IdleSubseq /\ IdleHeading /\ IdleMeta /\ IdleReadme /\ IdleBatch

CallCheck(fn, r) ==
    /\ pc = "format"
    /\ pc' = "format done"
    /\ ret' = [fn |-> fn, ok |-> r.ok, val |-> r.val]
    /\ UNCHANGED <<subseqVars, headingVars, arg, metaVars, readmeVars, batchVars>>

CheckApis == CallCheck("check_apis", check_apis(arg))
CheckTags == CallCheck("check_tags", check_tags(arg))

NextFormat == CheckApis \/ CheckTags

SpecFormat == InitFormat /\ [][NextFormat]_vars

---------------------------------------------------------------------------
(* Specification of get_readme_parts applied to one README text.           *)

InitSplit ==
    /\ pc = "split"
    /\ content \in SplitInputs
    /\ readable = TRUE /\ readme = NewReadme
    /\ rule_errs = <<>> /\ count0 = 0 /\ count = 0
    /\ IdleSubseq /\ IdleHeading /\ IdleParse /\ IdleMeta /\ IdleBatch

GetReadmeParts ==
    /\ pc = "split"
    /\ pc' = "split done"
    /\ readme' = get_readme_parts(content)
    /\ UNCHANGED <<subseqVars, headingVars, parseVars, metaVars, content,
                   readable, rule_errs, count0, count, batchVars>>

NextSplit == GetReadmeParts

SpecSplit == InitSplit /\ [][NextSplit]_vars

---------------------------------------------------------------------------
(* Specification of readme_checker.run_check on one sample.                *)

InitReadme ==
    /\ pc = "readme"
    /\ \/ readable = TRUE /\ content \in ReadmeDocs
       \/ readable = FALSE /\ content = <<>>
    /\ readme = NewReadme
    /\ rule_errs = <<>>
    /\ count0 \in 0..MaxCount
    /\ count = count0
    /\ IdleSubseq /\ IdleHeading /\ IdleParse /\ IdleMeta /\ IdleBatch

\* run_check(path, count)
ReadmeRunCheck ==
    /\ pc = "readme"
    /\ pc' = "readme done"
    /\ LET run == readme_run_check(readable, content, count0)
       IN  /\ readme' = run.r
           /\ rule_errs' = run.errs
           /\ count' = run.count
    /\ UNCHANGED <<subseqVars, headingVars, parseVars, metaVars, content,
                   readable, count0, batchVars>>

NextReadme == ReadmeRunCheck

SpecReadme == InitReadme /\ [][NextReadme]_vars

---------------------------------------------------------------------------
(* Specification of all_samples of the two checkers: one action per turn   *)
(* of the loop over the sample folders, one for the end of the run.        *)

InitBatch ==
    /\ pc \in {"readme batch", "meta batch"}
    /\ samples \in BoundedSeqs(BatchSamples, MaxSamples)
    /\ next_idx = 1
    /\ exception_count = 0
    /\ checked = <<>>
    /\ evaluated = <<>>
    /\ batch_result = "running"
    /\ IdleSubseq /\ IdleHeading /\ IdleParse /\ IdleMeta /\ IdleReadme

BatchTurn(mode) ==
    /\ pc = mode
    /\ batch_result = "running"
    /\ next_idx <= Len(samples)
    /\ next_idx' = next_idx + 1
    /\ UNCHANGED <<pc, subseqVars, headingVars, parseVars, metaVars,
                   readmeVars, samples, batch_result>>

\* readme_checker.all_samples: one sample folder.
ReadmeBatchStep ==
    /\ BatchTurn("readme batch")
    /\ LET sample == samples[next_idx]
           run == readme_run_check(sample.readable, sample.text,
                                   exception_count)
       IN  IF IsOmitted(sample.files)
           THEN UNCHANGED <<exception_count, checked, evaluated>>
           ELSE /\ exception_count' = readme_count(exception_count, sample)
                /\ checked' = Append(checked, next_idx)
                /\ evaluated' = Append(evaluated, readme_run_report(run.errs))

\* metadata_checker.all_samples: one sample folder.
MetaBatchStep ==
    /\ BatchTurn("meta batch")
    /\ LET sample == samples[next_idx]
       IN  IF IsOmitted(sample.files)
           THEN UNCHANGED <<exception_count, checked, evaluated>>
           ELSE /\ exception_count' = meta_count(exception_count, sample)
                /\ checked' = Append(checked, next_idx)
                /\ evaluated' =
                       Append(evaluated, meta_run_check(sample).report)

\* Throw once if there are exceptions.
BatchEnd(mode) ==
    /\ pc = mode
    /\ batch_result = "running"
    /\ next_idx > Len(samples)
    /\ batch_result' = IF exception_count > 0 THEN "raised" ELSE "returned"
    /\ UNCHANGED <<pc, subseqVars, headingVars, parseVars, metaVars,
                   readmeVars, samples, next_idx, exception_count, checked,
                   evaluated>>

ReadmeBatchEnd == BatchEnd("readme batch")
MetaBatchEnd == BatchEnd("meta batch")

NextBatch ==
    ReadmeBatchStep \/ MetaBatchStep \/ ReadmeBatchEnd \/ MetaBatchEnd

SpecBatch == InitBatch /\ [][NextBatch]_vars

---------------------------------------------------------------------------
(* The path derivation as its two callers run it: the checker's Metadata   *)
(* and the MetadataCreator of create-metadata-from-README.py.              *)

\* create_one_metadata(path)
CreateOneMetadata ==
    /\ pc = "create"
    /\ LET r == create_one_metadata(checker, readme_parts, folder_name, listing)
       IN  /\ checker' = r.c
           /\ meta_err' = r.err
           /\ pc' = IF r.err = NoErr THEN "create written" ELSE "create failed"
    /\ UNCHANGED <<subseqVars, headingVars, parseVars, inputVars, json_data,
                   readmeVars, batchVars>>

InitPaths ==
    /\ pc \in {"meta", "create"}
    /\ checker = NewMetadata
    /\ json_data = NoJson
    /\ meta_err = NoErr
    /\ folder_name = <<97>>
    /\ readme_parts \in CheckReadmes
    /\ listing \in PathListings
    /\ IdleSubseq /\ IdleHeading /\ IdleParse /\ IdleReadme /\ IdleBatch

NextPaths == PopulateFromReadme \/ PopulateFromPaths \/ CreateOneMetadata

SpecPaths == InitPaths /\ [][NextPaths]_vars

---------------------------------------------------------------------------
(* C1: check_format_heading accepts a header list iff every header is      *)
(* allowed, the five mandatory headers are present, and the list follows   *)
(* the canonical order with no header repeated.                            *)

\* Position of an allowed header in the canonical order.
CanonicalPos(h) == CHOOSE k \in 1..Len(available_headers) : available_headers[k] = h

HeadingAllowed(hs) == \A i \in 1..Len(hs) : hs[i] \in ToSet(available_headers)

HeadingMandatory(hs) == \A h \in essential_headers : \E i \in 1..Len(hs) : hs[i] = h

HeadingInOrder(hs) ==
    \A i, j \in 1..Len(hs) :
        i < j => CanonicalPos(hs[i]) < CanonicalPos(hs[j])

C1_HeadingAcceptedIff ==
    pc = "heading done" =>
        (heading_err = "" <=>
            /\ HeadingAllowed(readme_headers)
            /\ HeadingMandatory(readme_headers)
            /\ HeadingInOrder(readme_headers))

\* A README with the five mandatory headers and one optional one is accepted.
C1_Witness ==
    /\ pc = "heading done"
    /\ heading_err = ""
    /\ Len(readme_headers) = 6

---------------------------------------------------------------------------
(* C2: check_is_subsequence returns 0 exactly when list_a is an            *)
(* order-preserving subsequence of list_b (an empty list_a included), and  *)
(* otherwise a count between 1 and len(list_a).                            *)

IsSubsequence(a, b) ==
    \E f \in [1..Len(a) -> 1..Len(b)] :
        /\ \A i, j \in 1..Len(a) : i < j => f[i] < f[j]
        /\ \A i \in 1..Len(a) : b[f[i]] = a[i]

C2_SubseqReturnsZeroIff ==
    pc = "subseq done" =>
        /\ subseq_ret = 0 <=> IsSubsequence(list_a, list_b)
        /\ subseq_ret # 0 => subseq_ret \in 1..Len(list_a)

---------------------------------------------------------------------------
(* C3: the lists parse_apis and parse_tags return are ordered by the       *)
(* case-folded value of their items.                                       *)

IsCasefoldSorted(l) ==
    \A i, j \in 1..Len(l) : i < j => StrLeq(casefold(l[i]), casefold(l[j]))

C3_ParsedListsCasefoldSorted ==
    (pc = "parse done" /\ ret.fn \in {"parse_apis", "parse_tags"} /\ ret.ok)
        => IsCasefoldSorted(ret.val)

---------------------------------------------------------------------------
(* C4: parse_tags raises whenever the Tags body holds no tag, that is when *)
(* it is empty or whitespace only.                                         *)

C4_EmptyTagsRaise ==
    (pc = "parse done" /\ ret.fn = "parse_tags" /\ strip(arg) = <<>>)
        => ~ret.ok

---------------------------------------------------------------------------
(* C5: parse_head on a title block.                                        *)

\* The non-empty lines of the block handed to parse_head.
BlockLines == NonEmpty(splitlines(arg))

\* The block has three non-empty lines and the first of them is '# <name>'.
IsNamedBlock ==
    /\ Len(BlockLines) >= 3
    /\ Len(BlockLines[1]) >= 2
    /\ SubSeq(BlockLines[1], 1, 2) = <<HASH, SP>>

BlockName == SubSeq(BlockLines[1], 3, Len(BlockLines[1]))

\* The name with its leading spaces removed starts with neither '#' nor a
\* whitespace character.
NameStartsPlain ==
    LET n == lstrip(BlockName, {SP})
    IN  n = <<>> \/ n[1] \notin ({HASH} \cup Whitespace)

\* C5 as stated: the title is the stripped name for every name, and blocks
\* of fewer than three non-empty lines are refused.
C5_TitleIsStrippedName ==
    (pc = "parse done" /\ ret.fn = "parse_head") =>
        /\ Len(BlockLines) < 3 => ~ret.ok
        /\ IsNamedBlock => (ret.ok /\ ret.val[1] = strip(BlockName))

\* C5 amended: the title is the stripped name for every name that, after
\* its leading spaces, starts with neither '#' nor another whitespace
\* character; in general the title is the name without its leading '#' and
\* space characters and without trailing whitespace; blocks of fewer than
\* three non-empty lines are refused.
C5_TitleIsStrippedPlainName ==
    (pc = "parse done" /\ ret.fn = "parse_head") =>
        /\ Len(BlockLines) < 3 => ~ret.ok
        /\ IsNamedBlock =>
            /\ ret.ok
            /\ ret.val[1] = rstrip(lstrip(BlockName, {HASH, SP}), Whitespace)
            /\ NameStartsPlain => ret.val[1] = strip(BlockName)

\* A block '#  a ...' of three lines was parsed: the name has a space to strip.
C5_Witness ==
    /\ pc = "parse done" /\ ret.fn = "parse_head" /\ ret.ok
    /\ IsNamedBlock /\ NameStartsPlain
    /\ BlockName # strip(BlockName)
    /\ strip(BlockName) # <<>>

---------------------------------------------------------------------------
(* C6: populate_from_readme raises an error naming the folder whenever the *)
(* title derived from the README differs from the folder name; when it     *)
(* completes, the title equals the folder name.                            *)

\* populate_from_readme got as far as deriving a title.
TitleDerived ==
    /\ IndexOf(readme_parts, H_RelevantApi) # 0
    /\ IndexOf(readme_parts, H_Tags) # 0
    /\ parse_head(readme_parts[1]).ok

DerivedTitle == parse_head(readme_parts[1]).val[1]

C6_TitleMustEqualFolder ==
    /\ pc = "meta readme" => checker.title = folder_name
    /\ (pc \in {"meta readme", "meta failed"} /\ TitleDerived
            /\ DerivedTitle # folder_name)
        => /\ pc = "meta failed"
           /\ meta_err = ErrAbout("Folder name incorrect", folder_name)

\* A README titled 'a' in the folder 'A' was refused.
C6_Witness ==
    /\ pc = "meta failed"
    /\ meta_err = ErrAbout("Folder name incorrect", folder_name)
    /\ checker.title # folder_name
    /\ casefold(checker.title) = casefold(folder_name)

---------------------------------------------------------------------------
(* C7: after a successful populate_from_readme, keywords is the extracted  *)
(* tags that are not in the API list, in their order, followed by the API  *)
(* list: no element of the tag part is an API and relevant_apis is a       *)
(* suffix of keywords.                                                     *)

ExtractedTags == parse_tags(readme_parts[IndexOf(readme_parts, H_Tags) + 1]).val
ExtractedApis ==
    parse_apis(readme_parts[IndexOf(readme_parts, H_RelevantApi) + 1]).val

\* The number of keywords in front of the APIs.
TagPartLen == Len(checker.keywords) - Len(checker.relevant_apis)

C7_KeywordsAreTagsThenApis ==
    pc = "meta readme" =>
        /\ checker.relevant_apis = ExtractedApis
        /\ TagPartLen >= 0
        /\ SubSeq(checker.keywords, TagPartLen + 1, Len(checker.keywords))
               = checker.relevant_apis
        /\ \A i \in 1..TagPartLen :
               checker.keywords[i] \notin ToSet(checker.relevant_apis)
        /\ SubSeq(checker.keywords, 1, TagPartLen)
               = SelectSeq(ExtractedTags,
                           LAMBDA w : w \notin ToSet(ExtractedApis))

\* One tag was kept and another, which is also an API, was dropped.
C7_Witness ==
    /\ pc = "meta readme"
    /\ TagPartLen >= 1
    /\ TagPartLen < Len(ExtractedTags)
    /\ checker.keywords[1] # <<>>

---------------------------------------------------------------------------
(* The consistency check: what the claims C8-C10 speak about.              *)

\* run_check reached the comparison with the persisted record.
Compared == pc \in {"meta done", "meta compared"}

\* The record derived from the README and the folder, before the special
\* rules touch it.
Derived ==
    populate_from_paths(
        populate_from_readme(NewMetadata, readme_parts, folder_name).c,
        listing).c

\* The persisted record has the two authored keys run_check reads
\* unconditionally.
HasAuthoredKeys == {"category", "redirect_from"} \subseteq DOMAIN json_data

\* The persisted record has an offline_data key holding an empty list.
HasEmptyOfflineData ==
    "offline_data" \in DOMAIN json_data /\ json_data["offline_data"] = <<>>

\* The persisted record agrees with the derivation on the named fields.
AgreesOn(fields) == \A k \in fields : json_data[k] = Derived[k]

\* The equality diff found no difference / found one.
ComparisonSucceeded ==
    meta_err.kind \in {"", "Error category - Missing category.",
                       "Error category - Invalid category"}
ComparisonFailed == meta_err.kind = "Error inconsistent metadata"

---------------------------------------------------------------------------
(* C8: category, redirect_from and offline_data are taken from the         *)
(* persisted record before the comparison.                                 *)

OtherThanAuthored ==
    {"description", "ignore", "images", "keywords", "relevant_apis",
     "snippets", "title"}

\* C8 as stated: with all other fields agreeing the comparison succeeds
\* whatever the three persisted values are, an empty offline_data included.
C8_AuthoredFieldsNeverCompared ==
    (Compared /\ HasAuthoredKeys /\ AgreesOn(OtherThanAuthored))
        => ComparisonSucceeded

\* C8 amended: with all other fields agreeing the comparison succeeds
\* whatever the persisted category and redirect_from are and whether
\* offline_data is absent or a non-empty list; a persisted offline_data that
\* is an empty list makes the comparison fail.
C8_AuthoredFieldsExceptEmptyOffline ==
    (Compared /\ HasAuthoredKeys /\ AgreesOn(OtherThanAuthored))
        => /\ HasEmptyOfflineData => ComparisonFailed
           /\ ~HasEmptyOfflineData => ComparisonSucceeded

\* A record with an unknown category, a redirect and offline data passed
\* the comparison.
C8_Witness ==
    /\ Compared /\ HasAuthoredKeys /\ AgreesOn(OtherThanAuthored)
    /\ json_data["category"] = CAT_Bogus
    /\ json_data["redirect_from"] = <<ID_x>>
    /\ "offline_data" \in DOMAIN json_data
    /\ json_data["offline_data"] = <<ID_x>>
    /\ ComparisonSucceeded

---------------------------------------------------------------------------
(* C9: which non-derivable fields the checker copies, and what a persisted *)
(* ignore of true does.                                                    *)

Derivable ==
    {"description", "images", "keywords", "relevant_apis", "snippets",
     "title"}

\* C9 as stated: ignore is copied too, so a persisted record with ignore
\* true that agrees on every derivable field passes.
C9_PersistedIgnorePasses ==
    (Compared /\ HasAuthoredKeys /\ ~HasEmptyOfflineData
        /\ AgreesOn(Derivable) /\ json_data["ignore"] = TRUE)
        => ComparisonSucceeded

\* C9 amended: the checker copies three non-derivable fields (category,
\* redirect_from and, when present, offline_data); ignore is not copied and
\* stays false in the derived record, so a persisted record with ignore true
\* fails the check.
C9_IgnoreIsCompared ==
    (Compared /\ HasAuthoredKeys) =>
        /\ checker.category = json_data["category"]
        /\ checker.redirect_from = json_data["redirect_from"]
        /\ "offline_data" \in DOMAIN json_data
               => checker.offline_data = json_data["offline_data"]
        /\ checker.ignore = FALSE
        /\ json_data["ignore"] = TRUE => ComparisonFailed

\* A record with ignore true that agrees on every derivable field failed.
C9_Witness ==
    /\ Compared /\ HasAuthoredKeys /\ ~HasEmptyOfflineData
    /\ AgreesOn(Derivable)
    /\ json_data["ignore"] = TRUE
    /\ ComparisonFailed

---------------------------------------------------------------------------
(* C10: the description lenience rule.                                     *)

OtherThanDescription ==
    {"ignore", "images", "keywords", "relevant_apis", "snippets", "title"}

\* C10 as stated: a persisted description that is neither the derived one
\* nor the derived one without special characters fails the check.
C10_OnlyStrippedFormAccepted ==
    (Compared /\ HasAuthoredKeys
        /\ json_data["description"] # Derived.description
        /\ json_data["description"] # sub_special_char(Derived.description))
        => ComparisonFailed

\* C10 amended: a persisted description is accepted when it equals the
\* derived one or occurs as a substring of the derived one without special
\* characters (its fragments and the empty string included); any other
\* persisted description fails the check.
C10_SubstringOfStrippedFormAccepted ==
    (Compared /\ HasAuthoredKeys) =>
        LET persisted == json_data["description"]
            accepted  ==
                \/ persisted = Derived.description
                \/ IsSubstring(persisted,
                               sub_special_char(Derived.description))
        IN  /\ ~accepted => ComparisonFailed
            /\ (accepted /\ AgreesOn(OtherThanDescription)
                    /\ ~HasEmptyOfflineData) => ComparisonSucceeded

\* A proper, non-empty fragment of the description passed the comparison.
C10_Witness ==
    /\ Compared /\ HasAuthoredKeys /\ ComparisonSucceeded
    /\ json_data["description"] # <<>>
    /\ json_data["description"] # Derived.description
    /\ json_data["description"] # sub_special_char(Derived.description)

---------------------------------------------------------------------------
(* C11: the snippets lenience rule makes the check insensitive to the      *)
(* order of the persisted snippets: a permutation of the derived list is   *)
(* accepted and compared in the persisted order, anything else fails.      *)

\* How often x occurs in the list l.
Occurrences(l, x) == Cardinality({i \in 1..Len(l) : l[i] = x})

IsPermutation(a, b) ==
    /\ Len(a) = Len(b)
    /\ \A x \in ToSet(a) \cup ToSet(b) : Occurrences(a, x) = Occurrences(b, x)

OtherThanSnippets ==
    {"description", "ignore", "images", "keywords", "relevant_apis", "title"}

C11_SnippetOrderIgnored ==
    (Compared /\ HasAuthoredKeys) =>
        /\ (IsPermutation(json_data["snippets"], Derived.snippets)
                /\ AgreesOn(OtherThanSnippets) /\ ~HasEmptyOfflineData)
            => /\ ComparisonSucceeded
               /\ checker.snippets = json_data["snippets"]
        /\ ~IsPermutation(json_data["snippets"], Derived.snippets)
            => ComparisonFailed

\* The persisted snippets were in another order than the derived ones and
\* the comparison succeeded.
C11_Witness ==
    /\ Compared /\ HasAuthoredKeys /\ ComparisonSucceeded
    /\ json_data["snippets"] # Derived.snippets
    /\ checker.snippets = json_data["snippets"]

---------------------------------------------------------------------------
(* C12: check_apis accepts a 'Relevant API' text exactly when its entries  *)
(* are in case-insensitive order, hold no backtick and are not repeated.   *)

\* The entries of the text: its lines without bullet and trailing space.
ApiEntries ==
    LET lines == splitlines(strip(arg))
    IN  [i \in 1..Len(lines) |-> StripBullet(lines[i])]

NoBacktick(l) == \A i \in 1..Len(l) : BTICK \notin ToSet(l[i])

\* The entries of l in the order q, one bulleted line each.
Reordered(l, q) ==
    join(<<LF>>, [i \in 1..Len(l) |-> <<STAR, SP>> \o l[q[i]]])

Orders(n) == {q \in [1..n -> 1..n] : \A i, j \in 1..n : i # j => q[i] # q[j]}

\* No way to write the entries of l in an order that is not the
\* case-insensitive one is accepted.
UnsortedReorderingsRejected(l) ==
    \A q \in Orders(Len(l)) :
        ~IsCasefoldSorted([i \in 1..Len(l) |-> l[q[i]]])
            => ~check_apis(Reordered(l, q)).ok

ApisChecked == pc = "format done" /\ ret.fn = "check_apis"

\* C12 as stated.
C12_ApisAcceptedIff ==
    ApisChecked =>
        /\ ret.ok <=> /\ IsCasefoldSorted(ApiEntries)
                      /\ NoBacktick(ApiEntries)
                      /\ NoDuplicates(ApiEntries)
        /\ ret.ok => UnsortedReorderingsRejected(ApiEntries)

\* C12 amended: the text must also hold at least one entry and no empty one.
C12_NonEmptyApisAcceptedIff ==
    ApisChecked =>
        /\ ret.ok <=> /\ ApiEntries # <<>>
                      /\ <<>> \notin ToSet(ApiEntries)
                      /\ IsCasefoldSorted(ApiEntries)
                      /\ NoBacktick(ApiEntries)
                      /\ NoDuplicates(ApiEntries)
        /\ ret.ok => UnsortedReorderingsRejected(ApiEntries)

\* Two entries were accepted that are in case-insensitive order but not in
\* code point order.
C12_Witness ==
    /\ ApisChecked /\ ret.ok
    /\ Len(ApiEntries) = 2
    /\ ~StrLeq(ApiEntries[1], ApiEntries[2])

---------------------------------------------------------------------------
(* C13: a text check_tags accepts is its tags joined by ', ', and the tags *)
(* are non-empty, pairwise distinct and in case-insensitive order; a text  *)
(* with extra whitespace at a comma, a repeated tag or tags out of order   *)
(* is rejected.                                                            *)

TagsChecked == pc = "format done" /\ ret.fn = "check_tags"

\* The lists that hold each element of the set S once.
ListsOf(S) == {l \in [1..Cardinality(S) -> S] : ToSet(l) = S}

IsTag(t) == t # <<>> /\ COMMA \notin ToSet(t) /\ strip(t) = t

\* The pieces between the commas, without the whitespace around them.
CommaPieces ==
    LET pieces == split(arg, COMMA)
    IN  [i \in 1..Len(pieces) |-> strip(pieces[i])]

\* In the trimmed text a comma follows whitespace, or is followed by more
\* than one space or by another whitespace character.
ExtraWhitespaceAtComma ==
    LET t == strip(arg)
    IN  \E i \in 1..Len(t) :
            /\ t[i] = COMMA
            /\ \/ i > 1 /\ t[i - 1] \in Whitespace
               \/ i < Len(t) /\ t[i + 1] \in Whitespace \ {SP}
               \/ i + 1 < Len(t) /\ t[i + 1] = SP /\ t[i + 2] \in Whitespace

C13_AcceptedTagsRoundTrip ==
    TagsChecked =>
        /\ ret.ok =>
            \E l \in ListsOf(ret.val) :
                /\ join(<<COMMA, SP>>, l) = strip(arg)
                /\ \A i \in 1..Len(l) : IsTag(l[i])
                /\ IsCasefoldSorted(l)
        /\ ExtraWhitespaceAtComma => ~ret.ok
        /\ ~NoDuplicates(CommaPieces) => ~ret.ok
        /\ ~IsCasefoldSorted(CommaPieces) => ~ret.ok

\* Two tags were accepted that are in case-insensitive order but not in
\* code point order.
C13_Witness ==
    /\ TagsChecked /\ ret.ok
    /\ Cardinality(ret.val) = 2
    /\ ~StrLeq(CommaPieces[1], CommaPieces[2])

---------------------------------------------------------------------------
(* C14: the disjointness rule of the README checker reports a failure      *)
(* exactly when the APIs and the tags of the README intersect.             *)

ReadmeChecked == pc = "readme done"

\* The text of the section that follows the header, "" without one.
SectionText(header) == SectionAfter(readme, header).val

\* The APIs and the tags as written, whether well formatted or not.
WrittenApis ==
    LET lines == splitlines(strip(SectionText(H_RelevantApi)))
    IN  {StripBullet(lines[i]) : i \in 1..Len(lines)}
WrittenTags ==
    LET pieces == split(SectionText(H_Tags), COMMA)
    IN  {strip(pieces[i]) : i \in 1..Len(pieces)}

HeadingFailed   == rule_errs[2] # ""
TitleFailed     == rule_errs[3] # ""
ApisFailed      == rule_errs[4] # ""
TagsFailed      == rule_errs[5] # ""
RedundantFailed == rule_errs[6] # ""

\* C14 as stated.
C14_RedundantFailsIffIntersect ==
    (ReadmeChecked /\ readme.loaded) =>
        (RedundantFailed <=> WrittenApis \cap WrittenTags # {})

\* C14 amended: the disjointness rule also fails whenever the API rule or
\* the tag rule fails.
C14_RedundantFailsIffIntersectOrMalformed ==
    (ReadmeChecked /\ readme.loaded) =>
        (RedundantFailed <=>
            \/ ApisFailed
            \/ TagsFailed
            \/ WrittenApis \cap WrittenTags # {})

\* Two well-formed lists that share an entry were reported.
C14_Witness ==
    /\ ReadmeChecked /\ readme.loaded
    /\ ~ApisFailed /\ ~TagsFailed /\ RedundantFailed
    /\ Cardinality(WrittenApis) = 2

---------------------------------------------------------------------------
(* C19: readme_checker.run_check returns its count argument plus the       *)
(* number of failed steps, at most six; when README.md cannot be loaded    *)
(* all six steps fail.                                                     *)

C19_CountGrowsByFailedSteps ==
    ReadmeChecked =>
        /\ count - count0 \in 0..6
        /\ count = count0 + Failures(rule_errs)
        /\ ~readable =>
            /\ readme = NewReadme
            /\ \A i \in 1..6 : rule_errs[i] # ""
            /\ count = count0 + 6

\* A README that could not be loaded was checked with a count that was
\* not zero.
C19_Witness ==
    /\ ReadmeChecked /\ ~readable
    /\ count0 > 0 /\ count = count0 + 6

---------------------------------------------------------------------------
(* C15: in a run over all samples every rule is evaluated for every        *)
(* sample, whatever failed before for that sample.                         *)

BatchOver == batch_result # "running"

\* The folder holds a file other than '.DS_Store'.
HasFile(sample) ==
    \E i \in 1..Len(sample.files) : ~StartsWithDsStore(sample.files[i])

\* The positions before n of the folders that hold a file, in order.
FoldersWithFileBefore(n) ==
    SelectSeq([i \in 1..(n - 1) |-> i], LAMBDA i : HasFile(samples[i]))

AllRules ==
    IF pc = "readme batch" THEN ToSet(ReadmeRules) ELSE MetaRules

EveryFolderChecked ==
    /\ checked = FoldersWithFileBefore(Len(samples) + 1)
    /\ Len(evaluated) = Len(checked)

\* C15 as stated.
C15_EveryRuleEvaluated ==
    BatchOver =>
        /\ EveryFolderChecked
        /\ \A k \in 1..Len(evaluated) : evaluated[k].rules = AllRules

\* The metadata check of the k-th checked sample stopped at its first
\* failure.
MetaStoppedAtFirstFailure(k) ==
    LET sample == samples[checked[k]]
        rules == evaluated[k].rules
        failed == evaluated[k].failed
    IN  /\ "derivation" \in rules
        /\ "derivation" \in failed => rules = {"derivation"}
        /\ ~sample.has_json => rules = {"derivation"}
        /\ "diff" \in failed => rules = {"derivation", "diff"}
        /\ "category" \in failed => rules = MetaRules
        /\ (failed = {} /\ sample.has_json) => rules = MetaRules

\* C15 amended: the README checker evaluates its six rules for every
\* sample; the metadata checker checks every sample but stops the check of
\* a sample at its first failure.
C15_EveryRuleEvaluatedByReadmeChecker ==
    BatchOver =>
        /\ EveryFolderChecked
        /\ pc = "readme batch" =>
            \A k \in 1..Len(evaluated) : evaluated[k].rules = AllRules
        /\ pc = "meta batch" =>
            \A k \in 1..Len(evaluated) : MetaStoppedAtFirstFailure(k)

\* The README checker evaluated all rules for a sample whose README.md
\* could not be loaded and for the sample after it.
C15_Witness ==
    /\ BatchOver /\ pc = "readme batch"
    /\ Len(evaluated) >= 2
    /\ "populate" \in evaluated[1].failed
    /\ evaluated[1].rules = AllRules
    /\ evaluated[2].rules = AllRules

---------------------------------------------------------------------------
(* C16: all_samples checks every folder that holds a file, whatever failed *)
(* before; its failure counter never decreases; the run fails at its end   *)
(* exactly when the counter is positive, whatever the order of the folders.*)

\* What the check of the sample alone adds to the counter.
FailuresOf(sample) ==
    IF pc = "readme batch"
    THEN readme_run_check(sample.readable, sample.text, 0).count
    ELSE IF meta_run_check(sample).err # NoErr THEN 1 ELSE 0

RECURSIVE FailuresOfAll(_)
FailuresOfAll(positions) ==
    IF positions = <<>> THEN 0
    ELSE FailuresOf(samples[positions[1]]) + FailuresOfAll(Tail(positions))

BatchCountsFailures ==
    /\ checked = FoldersWithFileBefore(next_idx)
    /\ exception_count = FailuresOfAll(checked)
    /\ BatchOver =>
        /\ next_idx = Len(samples) + 1
        /\ batch_result = "raised" <=> exception_count > 0
        /\ batch_result = "raised" <=>
               \E sample \in ToSet(samples) :
                   HasFile(sample) /\ FailuresOf(sample) > 0

C16_BatchChecksEveryFolder ==
    /\ []BatchCountsFailures
    /\ [][exception_count' >= exception_count]_vars

\* A run failed in which the first folder failed its check, the second one
\* was omitted as empty and the third one was checked.
C16_Witness ==
    /\ BatchOver /\ batch_result = "raised"
    /\ Len(samples) = 3
    /\ FailuresOf(samples[1]) > 0
    /\ ~HasFile(samples[2])
    /\ checked = <<1, 3>>

---------------------------------------------------------------------------
(* C17: the path derivation fails when the folder has no image or no       *)
(* source file, and otherwise yields the sorted matching file names.       *)

\* file is a stem that is not made of dots only, followed by ext.
HasExtension(file, ext) ==
    /\ Len(file) > Len(ext)
    /\ SubSeq(file, Len(file) - Len(ext) + 1, Len(file)) = ext
    /\ \E i \in 1..(Len(file) - Len(ext)) : file[i] # DOT

IsSourceFile(file) == HasExtension(file, EXT_SWIFT)
IsImageFile(file) ==
    \/ HasExtension(casefold(file), EXT_PNG)
    \/ HasExtension(casefold(file), EXT_GIF)

SourceFiles == {f \in ToSet(listing) : IsSourceFile(f)}
ImageFiles  == {f \in ToSet(listing) : IsImageFile(f)}

\* l lists exactly the files of S, in increasing code point order.
IsSortedListOf(l, S) ==
    /\ ToSet(l) = S
    /\ Len(l) = Cardinality(S)
    /\ \A i, j \in 1..Len(l) : i < j => StrLeq(l[i], l[j])

PathErrors ==
    {"Unable to get images paths.", "Unable to get swift source code paths."}

\* The README derivation succeeded, so the path derivation ran.
CheckerDerivedPaths ==
    \/ pc = "meta paths"
    \/ pc = "meta failed" /\ meta_err.kind \in PathErrors
CreatorDerivedPaths ==
    \/ pc = "create written"
    \/ pc = "create failed" /\ meta_err.kind \in PathErrors

PathsFailed == meta_err # NoErr

\* C17 as stated: the same rule for every caller of the derivation.
C17_PathsFailWithoutImageOrSource ==
    (CheckerDerivedPaths \/ CreatorDerivedPaths) =>
        /\ PathsFailed <=> (ImageFiles = {} \/ SourceFiles = {})
        /\ ~PathsFailed =>
            /\ IsSortedListOf(checker.images, ImageFiles)
            /\ IsSortedListOf(checker.snippets, SourceFiles)

\* C17 amended: the checker's derivation fails without an image or without
\* a source file; the derivation of the generate-metadata entry point fails
\* only without a source file and yields an empty image list when the
\* folder has no image.
C17_PathsFailPerCaller ==
    /\ CheckerDerivedPaths =>
        (PathsFailed <=> (ImageFiles = {} \/ SourceFiles = {}))
    /\ CreatorDerivedPaths => (PathsFailed <=> SourceFiles = {})
    /\ ((CheckerDerivedPaths \/ CreatorDerivedPaths) /\ ~PathsFailed) =>
        /\ IsSortedListOf(checker.images, ImageFiles)
        /\ IsSortedListOf(checker.snippets, SourceFiles)

\* The checker derived two images, one of them with an upper-case
\* extension, and a source file from a folder.
C17_Witness ==
    /\ pc = "meta paths"
    /\ Len(checker.images) = 2 /\ F_PNG \in ToSet(checker.images)
    /\ Len(checker.snippets) = 1

---------------------------------------------------------------------------
(* C18: get_readme_parts yields one more section body than header names,   *)
(* the first body being the title block and each later body the text that  *)
(* follows its header; sections start only at lines of two '#', one        *)
(* whitespace character and the header name.                               *)

SplitDone == pc = "split done"

\* readme_parts holds the bodies and the header names in turn: the bodies
\* are its 1st, 3rd, 5th ... items.
SectionBodies ==
    [i \in 1..((Len(readme.readme_parts) + 1) \div 2) |->
        readme.readme_parts[2 * i - 1]]

\* s is the first body, then for each header '##', one of the characters
\* seps, the header name, and the body that follows.
RECURSIVE Rebuilds(_, _, _, _)
Rebuilds(bodies, headers, s, seps) ==
    LET b == Len(bodies[1])
    IN  IF headers = <<>> THEN bodies = <<s>>
        ELSE LET h == Len(headers[1])
             IN  /\ Len(bodies) > 1
                 /\ Len(s) >= b + 3 + h
                 /\ SubSeq(s, 1, b) = bodies[1]
                 /\ s[b + 1] = HASH /\ s[b + 2] = HASH /\ s[b + 3] \in seps
                 /\ SubSeq(s, b + 4, b + 3 + h) = headers[1]
                 /\ Rebuilds(Tail(bodies), Tail(headers),
                             SubSeq(s, b + 4 + h, Len(s)), seps)

\* The i-th header is at the start of a line and runs to the end of it.
HeaderFillsLine(i) ==
    /\ LF \notin ToSet(readme.readme_headers[i])
    /\ LET before == SectionBodies[i]
       IN  \/ i = 1 /\ before = <<>>
           \/ before # <<>> /\ before[Len(before)] = LF
    /\ LET after == SectionBodies[i + 1]
       IN  after = <<>> \/ after[1] = LF

\* No line of the i-th body starts with two '#' and a whitespace character.
BodyHasNoHeader(i) ==
    LET b == SectionBodies[i]
    IN  \A p \in 1..(Len(b) - 2) :
            ~ /\ b[p] = HASH /\ b[p + 1] = HASH /\ b[p + 2] \in Whitespace
              /\ IF p = 1 THEN i = 1 ELSE b[p - 1] = LF

SectionsOf(seps) ==
    /\ Len(readme.readme_headers) = Len(SectionBodies) - 1
    /\ \A i \in 1..Len(readme.readme_headers) :
        /\ readme.readme_parts[2 * i] = readme.readme_headers[i]
        /\ HeaderFillsLine(i)
    /\ \A i \in 1..Len(SectionBodies) : BodyHasNoHeader(i)
    /\ Rebuilds(SectionBodies, readme.readme_headers, content, seps)

---------------------------------------------------------------------------
(* The main specification: metadata_checker.run_check on one sample.       *)

Init == InitCheck
Next == NextCheck
Spec == Init /\ [][Next]_vars

=============================================================================
